---- MODULE Spec2Model ----
(***************************************************************************)
(* mexhat.cpp: SDL2 + OpenGL ES 2.0 spinning Mexican-hat surface.          *)
(*                                                                         *)
(* Three specifications over one set of variables and operators:           *)
(*   Spec       the program: main() from SDL_Init to process exit;         *)
(*   SpecBuild  makeSombrero and the frame loop's draw submission applied  *)
(*              to arguments drawn from bounded sets (main itself only     *)
(*              ever calls makeSombrero(128, 6, 1, 1));                    *)
(*   SpecRamp   the colour ramp of makeSombrero's second loop applied to   *)
(*              normalized heights drawn from a bounded set.               *)
(*                                                                         *)
(* Numbers.  A float is modelled by an exact rational <<n, d>> in lowest   *)
(* terms with d > 0, so rounding is left out; every value the claims name  *)
(* (0, 1/4, 1/2, 3/4, 1, 1e9) is exact in binary32 as well.  Sampled       *)
(* heights are integer-valued.  zscale * sinf(freq*r) / r is a libm call   *)
(* the model does not compute: a height profile H gives the height of each *)
(* radial band of the grid, and profiles are drawn from bounded sets.      *)
(* radius only scales x and y, and cancels in (x/radius)*1.5.              *)
(***************************************************************************)
EXTENDS Integers, Sequences, FiniteSets, TLC

\* ------------------------------------------------------------------ bounds
\* resolutions MinRes - BelowRes .. MaxSmallRes are built with every profile
BelowRes == 4
MaxSmallRes == 4
\* resolutions IndexCeiling - 1 .. IndexCeiling + BeyondCeiling: one profile
BeyondCeiling == 1
\* radial bands of a height profile
Bands == 3
\* heights 0 .. MaxNearZ lie inside the start values of the running min/max
MaxNearZ == 3
\* iterations of the frame loop, events delivered by SDL
MaxFrames == 2
MaxEvents == 2
\* normalized heights n/d, 0 <= n <= d <= MaxDen, given to the colour ramp
MaxDen == 16

\* ------------------------------------------------------- program constants
MinRes == 3
DefaultRes == 128
ZSentinel == 1000000000
RangeOne == 1
IndexModulus == 65536
FloatBytes == 4
IndexBytes == 2
InitialWidth == 900
InitialHeight == 700

\* ---------------------------------------------------------------- rationals
Abs(x) == IF x < 0 THEN -x ELSE x

RECURSIVE Gcd(_, _)
Gcd(a, b) == IF b = 0 THEN a ELSE Gcd(b, a % b)

\* n/d in lowest terms, d # 0
Frac(n, d) ==
    LET g == Gcd(Abs(n), Abs(d))
        s == IF d < 0 THEN -1 ELSE 1
    IN  <<(s * n) \div g, (s * d) \div g>>

F0 == <<0, 1>>
F1 == <<1, 1>>
Quarter == <<1, 4>>
Half == <<1, 2>>
ThreeQuarters == <<3, 4>>

FAdd(a, b) == Frac(a[1] * b[2] + b[1] * a[2], a[2] * b[2])
FSub(a, b) == Frac(a[1] * b[2] - b[1] * a[2], a[2] * b[2])
FMul(a, b) == Frac(a[1] * b[1], a[2] * b[2])
FDiv(a, b) == Frac(a[1] * b[2], a[2] * b[1])
FLess(a, b) == a[1] * b[2] < b[1] * a[2]

SetMin(S) == CHOOSE x \in S : \A y \in S : x <= y
SetMax(S) == CHOOSE x \in S : \A y \in S : x >= y

\* a std::vector is a sequence: element k - 1 of the code is [k]
Vec(f) == SubSeq(f, 1, Len(f))
Size(vec) == Len(vec)
Values(vec) == {vec[k] : k \in DOMAIN vec}

\* ------------------------------------------------------------ makeSombrero
\* if (N<3) N=3;
clampNAtTwo(N) == IF N < 2 THEN 2 ELSE N
clampN(N) == IF N < MinRes THEN MinRes ELSE N

\* const int V = N*N;
VertexCount(Nc) == Nc * Nc

\* float(i)/(N-1), xmin + tx*(xmax-xmin), (x/radius)*1.5f
GridCoord(i, Nc) == Frac(3 * (2 * i - (Nc - 1)), 2 * (Nc - 1))

\* x*x + y*y in units of (radius/(N-1))^2 / 4: what r, and so z, depends on
RadiusSq(i, j, Nc) ==
    (2 * i - (Nc - 1)) * (2 * i - (Nc - 1)) + (2 * j - (Nc - 1)) * (2 * j - (Nc - 1))

\* the radial band of sample (i, j): 0 at the centre, Bands - 1 at the corners
Band(i, j, Nc) == (RadiusSq(i, j, Nc) * Bands) \div (2 * (Nc - 1) * (Nc - 1) + 1)

\* float z = zscale * (sinf(freq*r)/r), with r clamped to 1e-4f
HeightAt(i, j, Nc, H) == H[Band(i, j, Nc)]

\* zs, row-major: j outer, i inner; zs[v] of the code is Heights[v + 1]
Heights(Nc, H) ==
    Vec([k \in 1..VertexCount(Nc) |-> HeightAt((k - 1) % Nc, (k - 1) \div Nc, Nc, H)])

\* float zmin=1e9f; ... if (z<zmin) zmin=z;
RunningMin(zs) == SetMin({ZSentinel} \cup Values(zs))

\* float zmax=-1e9f; ... if (z>zmax) zmax=z;
RunningMax(zs) == SetMax({-ZSentinel} \cup Values(zs))

\* float range = (zmax - zmin); if (range < 1e-6f) range = 1.0f;
\* (zmax - zmin is integer-valued here: below 1e-6 means at most 0)
RangeOf(zmin, zmax) == IF zmax - zmin <= 0 THEN RangeOne ELSE zmax - zmin

\* float t = (zs[v]-zmin)/range;
Normalized(z, zmin, range) == Frac(z - zmin, range)

\* the four branches of the colour ramp: <<r, g, b>>
RampSteps(t) ==
    IF FLess(t, Quarter) THEN <<F0, F0, F1>>
    ELSE IF FLess(t, Half) THEN <<F0, F1, F1>>
    ELSE IF FLess(t, ThreeQuarters) THEN <<F0, F1, F0>>
    ELSE IF FLess(t, F1) THEN <<F1, F1, F0>>
    ELSE <<F1, F0, F0>>
RampGreenToRed(t) ==
    IF FLess(t, Quarter) THEN
        LET k == FDiv(t, Quarter) IN <<F0, k, F1>>
    ELSE IF FLess(t, Half) THEN
        LET k == FDiv(FSub(t, Quarter), Quarter) IN <<F0, F1, FSub(F1, k)>>
    ELSE IF FLess(t, ThreeQuarters) THEN
        LET k == FDiv(FSub(t, Half), Quarter) IN <<k, FSub(F1, k), F0>>
    ELSE
        LET k == FDiv(FSub(t, ThreeQuarters), Quarter) IN <<F1, k, F0>>
Ramp(t) ==
    IF FLess(t, Quarter) THEN
        LET k == FDiv(t, Quarter) IN <<F0, k, F1>>
    ELSE IF FLess(t, Half) THEN
        LET k == FDiv(FSub(t, Quarter), Quarter) IN <<F0, F1, FSub(F1, k)>>
    ELSE IF FLess(t, ThreeQuarters) THEN
        LET k == FDiv(FSub(t, Half), Quarter) IN <<k, F1, F0>>
    ELSE
        LET k == FDiv(FSub(t, ThreeQuarters), Quarter) IN <<F1, FSub(F1, k), F0>>

\* GLushort a = ...: the value is stored modulo 2^16
ToUShort(x) == x % IndexModulus

\* for (int j=0;j<N-1;++j) for (int i=0;i<N-1;++i)
LoopCellsEveryRow(Nc) == (0..(Nc - 1)) \X (0..(Nc - 2))
LoopCells(Nc) == (0..(Nc - 2)) \X (0..(Nc - 2))

\* a, b, c, d of cell (j, i), and the push order a c b, b c d
CellIndicesPastEnd(j, i, Nc) ==
    LET a == ToUShort(j * Nc + i)
        b == ToUShort(j * Nc + (i + 1))
        c == ToUShort((j + 1) * Nc + i)
        d == ToUShort((j + 1) * Nc + (i + 1) + Nc)
    IN  <<a, c, b, b, c, d>>
CellIndicesRowOrder(j, i, Nc) ==
    LET a == ToUShort(j * Nc + i)
        b == ToUShort(j * Nc + (i + 1))
        c == ToUShort((j + 1) * Nc + i)
        d == ToUShort((j + 1) * Nc + (i + 1))
    IN  <<a, b, c, b, c, d>>
CellIndices(j, i, Nc) ==
    LET a == ToUShort(j * Nc + i)
        b == ToUShort(j * Nc + (i + 1))
        c == ToUShort((j + 1) * Nc + i)
        d == ToUShort((j + 1) * Nc + (i + 1))
    IN  <<a, c, b, b, c, d>>

\* pos: x, y, z of each vertex
Positions(Nc, zs) ==
    Vec([k \in 1..(3 * VertexCount(Nc)) |->
            LET v == (k - 1) \div 3
                comp == (k - 1) % 3
            IN  IF comp = 0 THEN GridCoord(v % Nc, Nc)
                ELSE IF comp = 1 THEN GridCoord(v \div Nc, Nc)
                ELSE <<zs[v + 1], 1>>])

\* col: r, g, b of each vertex
Colours(Nc, zs, zmin, range) ==
    Vec([k \in 1..(3 * VertexCount(Nc)) |->
            Ramp(Normalized(zs[((k - 1) \div 3) + 1], zmin, range))[((k - 1) % 3) + 1]])

\* idx: six indices per cell, cells in loop order
CellRow(cell, Nc) == cell \div (Nc - 1)
CellColumn(cell, Nc) == cell % (Nc - 1)
Indices(Nc) ==
    Vec([k \in 1..(6 * Cardinality(LoopCells(Nc))) |->
            CellIndices(CellRow((k - 1) \div 6, Nc), CellColumn((k - 1) \div 6, Nc), Nc)
                [((k - 1) % 6) + 1]])

\* makeSombrero's locals when it uploads its vectors, one operator per stage
\* so that each value is computed once
VectorsWithRange(Nc, zs, zmin, zmax, range) ==
    [N |-> Nc, V |-> VertexCount(Nc), zmin |-> zmin, zmax |-> zmax, range |-> range,
     pos |-> Positions(Nc, zs),
     col |-> Colours(Nc, zs, zmin, range),
     idx |-> Indices(Nc)]
VectorsWithMinMax(Nc, zs, zmin, zmax) ==
    VectorsWithRange(Nc, zs, zmin, zmax, RangeOf(zmin, zmax))
VectorsOfHeights(Nc, zs) == VectorsWithMinMax(Nc, zs, RunningMin(zs), RunningMax(zs))
BuildVectors(N, H) == VectorsOfHeights(clampN(N), Heights(clampN(N), H))

\* ------------------------------------------------------------------- state
VARIABLES
    pc,      \* where the program is
    args,    \* the arguments of the operation applied
    sdl,     \* SDL: library, window, GL context, buffer swaps
    gl,      \* the GL server: shader and program objects, buffers, draw calls
    mesh,    \* struct Mesh
    locals,  \* makeSombrero's N, V, zmin, zmax, range when it returns
    loop,    \* main's prog, locMVP, w, h, quit, ang
    out,     \* exit status (-1 while running) and what was printed to stderr
    obs,     \* history: events polled, loop iterations begun, counters at the first quit
    rgb      \* the colour the ramp gave

vars == <<pc, args, sdl, gl, mesh, locals, loop, out, obs, rgb>>

NoDraw == [mode |-> "none", count |-> 0, type |-> "none", vbo |-> 0, cbo |-> 0, ibo |-> 0]
NoQuit == [seen |-> FALSE, draws |-> 0, swaps |-> 0, ang |-> 0]

SdlOff == [init |-> FALSE, win |-> "none", ctx |-> "none", swaps |-> 0]
GlEmpty ==
    [objects |-> <<>>, buffers |-> <<>>, viewport |-> <<0, 0>>, depthTest |-> FALSE,
     program |-> 0, uMVP |-> [aspect |-> F0, ang |-> 0], clears |-> 0,
     draws |-> 0, lastDraw |-> NoDraw]
\* struct Mesh { GLuint vbo=0, cbo=0, ibo=0; GLsizei indexCount=0; }
MeshZero == [vbo |-> 0, cbo |-> 0, ibo |-> 0, indexCount |-> 0]
LocalsNone == [N |-> 0, V |-> 0, zmin |-> 0, zmax |-> 0, range |-> 0]
LoopNone == [prog |-> 0, locMVP |-> 0, w |-> 0, h |-> 0, quit |-> FALSE, ang |-> 0]
Running == [exit |-> -1, stderr |-> <<>>]
ObsNone == [events |-> 0, iters |-> 0, quitAt |-> NoQuit]

\* fprintf(stderr, ...); exit(1) / return 1
Fatal(o, text) == [exit |-> 1, stderr |-> Append(o.stderr, text)]

\* ------------------------------------------------------------------ inputs
BandSet == 0..(Bands - 1)
NearZ == 0..MaxNearZ
HighZ == {ZSentinel, ZSentinel + ZSentinel \div 2, 2 * ZSentinel}
LowZ == {-z : z \in HighZ}
HeightProfiles == [BandSet -> NearZ] \cup [BandSet -> HighZ] \cup [BandSet -> LowZ]
\* the shape of sin(r)/r: a peak at the centre, a trough, a low outer ripple
HatProfile == [b \in BandSet |-> IF b = 0 THEN MaxNearZ ELSE IF b = 1 THEN 0 ELSE 1]

\* the largest N whose N*N vertices a GLushort can address
IndexCeiling ==
    CHOOSE n \in 1..IndexModulus : n * n <= IndexModulus /\ (n + 1) * (n + 1) > IndexModulus

SmallResolutions == (MinRes - BelowRes)..MaxSmallRes
LargeResolutions == {DefaultRes} \cup (IndexCeiling..(IndexCeiling + BeyondCeiling))
BuildInputs ==
    {[N |-> n, H |-> h] : n \in SmallResolutions, h \in HeightProfiles}
        \cup {[N |-> n, H |-> HatProfile] : n \in LargeResolutions}

\* Mesh mesh = makeSombrero(128, 6.0f, 1.0f, 1.0f);
MainArgs == [N |-> DefaultRes, H |-> HatProfile]

\* t = (zs[v]-zmin)/range lies in [0, 1]
RampInputs == UNION {{[t |-> Frac(n, d)] : n \in 0..d} : d \in 1..MaxDen}

\* window sizes SDL reports in SDL_WINDOWEVENT_SIZE_CHANGED
Sizes == {<<640, 480>>, <<640, 0>>}

\* --------------------------------------------------------------- GL server
\* compile(): glCreateShader, glShaderSource, glCompileShader, status
GlCompile(g, type, ok) ==
    [g EXCEPT !.objects = Append(@, [kind |-> type, ok |-> ok, deletes |-> 0])]

\* linkProgram(): glCreateProgram .. glLinkProgram, then glDeleteShader(v), (f)
GlLink(g, ok) ==
    LET v == Len(g.objects) - 1
        f == Len(g.objects)
        linked == Append(g.objects, [kind |-> "PROGRAM", ok |-> ok, deletes |-> 0])
    IN  [g EXCEPT !.objects =
            IF ok THEN [linked EXCEPT ![v].deletes = @ + 1, ![f].deletes = @ + 1]
            ELSE linked]

\* glGenBuffers, glBindBuffer, glBufferData, three times; of a buffer the
\* server's target and byte size are kept (the program never reads one back)
GlUpload(g, r) ==
    [g EXCEPT !.buffers = @ \o
        << [target |-> "ARRAY_BUFFER", bytes |-> Size(r.pos) * FloatBytes, deletes |-> 0],
           [target |-> "ARRAY_BUFFER", bytes |-> Size(r.col) * FloatBytes, deletes |-> 0],
           [target |-> "ELEMENT_ARRAY_BUFFER", bytes |-> Size(r.idx) * IndexBytes,
            deletes |-> 0] >>]

\* Mesh m{}; m.vbo, m.cbo, m.ibo; m.indexCount = (GLsizei)idx.size();
MeshOf(g, r) ==
    [vbo |-> Len(g.buffers) + 1, cbo |-> Len(g.buffers) + 2, ibo |-> Len(g.buffers) + 3,
     indexCount |-> Size(r.idx)]

\* the upload and return of makeSombrero, given its vectors
Return(r) ==
    /\ gl' = GlUpload(gl, r)
    /\ mesh' = MeshOf(gl, r)
    /\ locals' = [N |-> r.N, V |-> r.V, zmin |-> r.zmin, zmax |-> r.zmax, range |-> r.range]

makeSombrero(N, H) == \E r \in {BuildVectors(N, H)} : Return(r)

\* float aspect = (h>0) ? (float)w/(float)h : 1.0f;
Aspect(w, h) == IF h > 0 THEN Frac(w, h) ELSE F1

\* glClearColor, glClear
GlClear(g) == [g EXCEPT !.clears = @ + 1]

\* glUseProgram .. glDrawElements(GL_TRIANGLES, mesh.indexCount, GL_UNSIGNED_SHORT, 0)
GlDraw(g, m, l) ==
    [g EXCEPT !.program = l.prog,
              !.uMVP = [aspect |-> Aspect(l.w, l.h), ang |-> l.ang],
              !.draws = @ + 1,
              !.lastDraw = [mode |-> "TRIANGLES", count |-> m.indexCount,
                            type |-> "UNSIGNED_SHORT",
                            vbo |-> m.vbo, cbo |-> m.cbo, ibo |-> m.ibo]]

\* ------------------------------------------------------------------ main()
\* if (SDL_Init(SDL_INIT_VIDEO) != 0) { ...; return 1; }
SdlInit ==
    /\ pc = "init"
    /\ \E ok \in BOOLEAN :
        IF ok THEN /\ sdl' = [sdl EXCEPT !.init = TRUE]
                   /\ pc' = "window"
                   /\ out' = out
        ELSE /\ out' = Fatal(out, "SDL_Init")
             /\ pc' = "exited"
             /\ sdl' = sdl
    /\ UNCHANGED <<args, gl, mesh, locals, loop, obs, rgb>>

\* SDL_CreateWindow; if (!win) { ...; return 1; }
CreateWindow ==
    /\ pc = "window"
    /\ \E ok \in BOOLEAN :
        IF ok THEN /\ sdl' = [sdl EXCEPT !.win = "live"]
                   /\ pc' = "context"
                   /\ out' = out
        ELSE /\ out' = Fatal(out, "SDL_CreateWindow")
             /\ pc' = "exited"
             /\ sdl' = sdl
    /\ UNCHANGED <<args, gl, mesh, locals, loop, obs, rgb>>

\* SDL_GL_CreateContext; if (!ctx) { ...; return 1; }
CreateContext ==
    /\ pc = "context"
    /\ \E ok \in BOOLEAN :
        IF ok THEN /\ sdl' = [sdl EXCEPT !.ctx = "live"]
                   /\ pc' = "compileVS"
                   /\ out' = out
        ELSE /\ out' = Fatal(out, "SDL_GL_CreateContext")
             /\ pc' = "exited"
             /\ sdl' = sdl
    /\ UNCHANGED <<args, gl, mesh, locals, loop, obs, rgb>>

\* compile(type, src): on a failed compile print the log and exit(1)
compileKeepsGoing(type, ok, next) ==
    /\ gl' = GlCompile(gl, type, ok)
    /\ pc' = next
    /\ out' = IF ok THEN out ELSE [out EXCEPT !.stderr = Append(@, "Shader compile error")]
compile(type, ok, next) ==
    /\ gl' = GlCompile(gl, type, ok)
    /\ IF ok THEN pc' = next /\ out' = out
       ELSE pc' = "exited" /\ out' = Fatal(out, "Shader compile error")

\* GLuint v = compile(GL_VERTEX_SHADER, vs);
CompileVertex ==
    /\ pc = "compileVS"
    /\ \E ok \in BOOLEAN : compile("VERTEX_SHADER", ok, "compileFS")
    /\ UNCHANGED <<args, sdl, mesh, locals, loop, obs, rgb>>

\* GLuint f = compile(GL_FRAGMENT_SHADER, fs);
CompileFragment ==
    /\ pc = "compileFS"
    /\ \E ok \in BOOLEAN : compile("FRAGMENT_SHADER", ok, "link")
    /\ UNCHANGED <<args, sdl, mesh, locals, loop, obs, rgb>>

\* the rest of linkProgram, and main's prog, locPos, locCol, locMVP
LinkProgram ==
    /\ pc = "link"
    /\ \E ok \in BOOLEAN :
        /\ gl' = GlLink(gl, ok)
        /\ IF ok THEN /\ loop' = [loop EXCEPT !.prog = Len(gl.objects) + 1, !.locMVP = 0]
                      /\ pc' = "mesh"
                      /\ out' = out
           ELSE /\ out' = Fatal(out, "Program link error")
                /\ pc' = "exited"
                /\ loop' = loop
    /\ UNCHANGED <<args, sdl, mesh, locals, obs, rgb>>

\* Mesh mesh = makeSombrero(...);
BuildMesh ==
    /\ pc = "mesh"
    /\ makeSombrero(args.N, args.H)
    /\ pc' = "setup"
    /\ UNCHANGED <<args, sdl, loop, out, obs, rgb>>

\* int w=900,h=700; glViewport; glEnable(GL_DEPTH_TEST); bool quit=false; float ang=0.0f;
Setup ==
    /\ pc = "setup"
    /\ loop' = [loop EXCEPT !.w = InitialWidth, !.h = InitialHeight,
                            !.quit = FALSE, !.ang = 0]
    /\ gl' = [gl EXCEPT !.viewport = <<InitialWidth, InitialHeight>>, !.depthTest = TRUE]
    /\ pc' = "loop"
    /\ UNCHANGED <<args, sdl, mesh, locals, out, obs, rgb>>

\* while(!quit)
WhileTrue(l) == TRUE
LoopCondition(l) == ~l.quit

LoopEnter ==
    /\ pc = "loop"
    /\ LoopCondition(loop)
    /\ obs.iters < MaxFrames
    /\ obs' = [obs EXCEPT !.iters = @ + 1]
    /\ pc' = "poll"
    /\ UNCHANGED <<args, sdl, gl, mesh, locals, loop, out, rgb>>

LoopExit ==
    /\ pc = "loop"
    /\ ~LoopCondition(loop)
    /\ pc' = "shutdown"
    /\ UNCHANGED <<args, sdl, gl, mesh, locals, loop, out, obs, rgb>>

\* SDL_PollEvent gave SDL_QUIT: quit=true, and the inner loop polls on
PollQuit ==
    /\ pc = "poll"
    /\ obs.events < MaxEvents
    /\ loop' = [loop EXCEPT !.quit = TRUE]
    /\ obs' = [obs EXCEPT !.events = @ + 1,
                          !.quitAt = IF @.seen THEN @
                                     ELSE [seen |-> TRUE, draws |-> gl.draws,
                                           swaps |-> sdl.swaps, ang |-> loop.ang]]
    /\ UNCHANGED <<pc, args, sdl, gl, mesh, locals, out, rgb>>

\* SDL_PollEvent gave SDL_WINDOWEVENT_SIZE_CHANGED: w, h, glViewport
PollResize ==
    /\ pc = "poll"
    /\ obs.events < MaxEvents
    /\ \E size \in Sizes :
        /\ loop' = [loop EXCEPT !.w = size[1], !.h = size[2]]
        /\ gl' = [gl EXCEPT !.viewport = size]
    /\ obs' = [obs EXCEPT !.events = @ + 1]
    /\ UNCHANGED <<pc, args, sdl, mesh, locals, out, rgb>>

\* SDL_PollEvent gave an event of any other type
PollOther ==
    /\ pc = "poll"
    /\ obs.events < MaxEvents
    /\ obs' = [obs EXCEPT !.events = @ + 1]
    /\ UNCHANGED <<pc, args, sdl, gl, mesh, locals, loop, out, rgb>>

\* SDL_PollEvent gave 0: the inner loop ends
PollEmpty ==
    /\ pc = "poll"
    /\ pc' = "render"
    /\ UNCHANGED <<args, sdl, gl, mesh, locals, loop, out, obs, rgb>>

\* ang += 0.02f, counted in increments
NextAngle(a) == a + 1

\* glClear .. glDrawElements; SDL_GL_SwapWindow(win); ang += 0.02f;
Render ==
    /\ pc = "render"
    /\ gl' = GlDraw(GlClear(gl), mesh, loop)
    /\ sdl' = [sdl EXCEPT !.swaps = @ + 1]
    /\ loop' = [loop EXCEPT !.ang = NextAngle(@)]
    /\ pc' = "loop"
    /\ UNCHANGED <<args, mesh, locals, out, obs, rgb>>

\* SDL_GL_DeleteContext(ctx); SDL_DestroyWindow(win); SDL_Quit(); return 0;
Shutdown ==
    /\ pc = "shutdown"
    /\ sdl' = [sdl EXCEPT !.ctx = "destroyed", !.win = "destroyed", !.init = FALSE]
    /\ out' = [out EXCEPT !.exit = 0]
    /\ pc' = "exited"
    /\ UNCHANGED <<args, gl, mesh, locals, loop, obs, rgb>>

Init ==
    /\ pc = "init"
    /\ args = MainArgs
    /\ sdl = SdlOff
    /\ gl = GlEmpty
    /\ mesh = MeshZero
    /\ locals = LocalsNone
    /\ loop = LoopNone
    /\ out = Running
    /\ obs = ObsNone
    /\ rgb = <<>>

Next ==
    \/ SdlInit \/ CreateWindow \/ CreateContext
    \/ CompileVertex \/ CompileFragment \/ LinkProgram
    \/ BuildMesh \/ Setup
    \/ LoopEnter \/ LoopExit
    \/ PollQuit \/ PollResize \/ PollOther \/ PollEmpty
    \/ Render \/ Shutdown

Spec == Init /\ [][Next]_vars

\* ------------------------------------------- makeSombrero on drawn arguments
\* main at the call of makeSombrero: SDL up, both shaders compiled, program linked
SdlReady == [init |-> TRUE, win |-> "live", ctx |-> "live", swaps |-> 0]
GlReady == GlLink(GlCompile(GlCompile(GlEmpty, "VERTEX_SHADER", TRUE),
                            "FRAGMENT_SHADER", TRUE), TRUE)

InitBuild ==
    /\ pc = "mesh"
    /\ args \in BuildInputs
    /\ sdl = SdlReady
    /\ gl = GlReady
    /\ mesh = MeshZero
    /\ locals = LocalsNone
    /\ loop = [LoopNone EXCEPT !.prog = Len(GlReady.objects)]
    /\ out = Running
    /\ obs = ObsNone
    /\ rgb = <<>>

NextBuild == BuildMesh \/ Setup \/ LoopEnter \/ PollEmpty \/ Render

SpecBuild == InitBuild /\ [][NextBuild]_vars

\* ------------------------------------------------- the ramp on drawn heights
ApplyRamp ==
    /\ pc = "ramp"
    /\ rgb' = Ramp(args.t)
    /\ pc' = "ramped"
    /\ UNCHANGED <<args, sdl, gl, mesh, locals, loop, out, obs>>

InitRamp ==
    /\ pc = "ramp"
    /\ args \in RampInputs
    /\ sdl = SdlOff
    /\ gl = GlEmpty
    /\ mesh = MeshZero
    /\ locals = LocalsNone
    /\ loop = LoopNone
    /\ out = Running
    /\ obs = ObsNone
    /\ rgb = <<>>

NextRamp == ApplyRamp

SpecRamp == InitRamp /\ [][NextRamp]_vars

\* ------------------------------------------------------------ observations
\* makeSombrero has just returned to main
Returned == pc = "setup"

\* the vectors makeSombrero uploaded for the arguments of this run
Uploaded == BuildVectors(args.N, args.H)

\* its index vector alone, which depends on N only
UploadedIdx == Indices(clampN(args.N))

Vertices(r) == 0..((Size(r.pos) \div 3) - 1)
VertexZ(r, v) == r.pos[3 * v + 3][1]
VertexRGB(r, v) == <<r.col[3 * v + 1], r.col[3 * v + 2], r.col[3 * v + 3]>>
SampledZ(r) == {VertexZ(r, v) : v \in Vertices(r)}

Blue == <<F0, F0, F1>>
Cyan == <<F0, F1, F1>>
Green == <<F0, F1, F0>>
Yellow == <<F1, F1, F0>>
Red == <<F1, F0, F0>>

\* ---------------------------------------------------------------------- C1
\* C1 (as claimed): on exit through the shutdown path the shader program and
\* the position, colour and index buffers have each been released exactly
\* once.  The code makes no glDeleteProgram or glDeleteBuffers call.
C1_ReleasedExactlyOnce ==
    (pc = "exited" /\ out.exit = 0) =>
        /\ gl.objects[loop.prog].deletes = 1
        /\ \A b \in {mesh.vbo, mesh.cbo, mesh.ibo} : gl.buffers[b].deletes = 1

\* ---------------------------------------------------------------------- C2
ShaderBuildFailed == \E k \in DOMAIN gl.objects : ~gl.objects[k].ok

\* C2: a failed compile or link prints its diagnostic and ends the process
\* with status 1, nothing is tried again, no mesh is built and no draw call
\* is issued; a draw call is issued only with both shaders compiled and the
\* program linked.
C2_ShaderFailureIsFatal ==
    /\ ShaderBuildFailed =>
        /\ pc = "exited"
        /\ out.exit = 1
        /\ Len(out.stderr) = 1
        /\ out.stderr[1] \in {"Shader compile error", "Program link error"}
        /\ mesh = MeshZero
        /\ gl.buffers = <<>>
        /\ gl.draws = 0
    /\ \A k, m \in DOMAIN gl.objects : gl.objects[k].kind = gl.objects[m].kind => k = m
    /\ gl.draws > 0 =>
        /\ {gl.objects[k].kind : k \in DOMAIN gl.objects}
               = {"VERTEX_SHADER", "FRAGMENT_SHADER", "PROGRAM"}
        /\ \A k \in DOMAIN gl.objects : gl.objects[k].ok

C2_Witness ==
    /\ pc = "exited"
    /\ \E k \in DOMAIN gl.objects : gl.objects[k].kind = "PROGRAM" /\ ~gl.objects[k].ok
    /\ out.stderr = <<"Program link error">>

\* ---------------------------------------------------------------------- C3
ExtremeColours(r, lo, hi, atLo, atHi) ==
    \A v \in Vertices(r) :
        /\ VertexZ(r, v) = lo => VertexRGB(r, v) = atLo
        /\ VertexZ(r, v) = hi => VertexRGB(r, v) = atHi

ExtremesOfSamples(r, S, atLo, atHi) ==
    SetMax(S) - SetMin(S) > 0 => ExtremeColours(r, SetMin(S), SetMax(S), atLo, atHi)

MinBlueMaxYellow(r) == ExtremesOfSamples(r, SampledZ(r), Blue, Yellow)

TrackedMinOf(S) == IF \E z \in S : z < ZSentinel THEN SetMin(S) ELSE ZSentinel
TrackedMaxOf(S) == IF \E z \in S : z > -ZSentinel THEN SetMax(S) ELSE -ZSentinel

ExtremesAsTracked(r, S, zmin, zmax) ==
    /\ zmin = TrackedMinOf(S)
    /\ zmax = TrackedMaxOf(S)
    /\ zmax - zmin > 0 => ExtremeColours(r, zmin, zmax, Blue, Red)

TrackedMinBlueMaxRed(r) == ExtremesAsTracked(r, SampledZ(r), locals.zmin, locals.zmax)

BothExtremesColoured(r, zmin, zmax) ==
    /\ \E v \in Vertices(r) : VertexZ(r, v) = zmin /\ VertexRGB(r, v) = Blue
    /\ \E v \in Vertices(r) : VertexZ(r, v) = zmax /\ VertexRGB(r, v) = Red

CountFor(N) == 6 * (N - 1) * (N - 1)

\* C4: for N >= 3 the index buffer holds 6*(N-1)^2 indices, and that number
\* is the Mesh's indexCount and the count every draw call submits; N = 3
\* gives 24 and N = 128 gives 96774.
C4_IndexCount ==
    args.N >= 3 =>
        /\ pc # "mesh" =>
            /\ mesh.indexCount = CountFor(args.N)
            /\ gl.buffers[mesh.ibo].bytes = IndexBytes * CountFor(args.N)
            /\ args.N = 3 => mesh.indexCount = 24
            /\ args.N = 128 => mesh.indexCount = 96774
        /\ gl.draws > 0 => gl.lastDraw.count = CountFor(args.N)

C4_Witness ==
    /\ args.N = 128
    /\ gl.draws > 0
    /\ gl.lastDraw.count = 96774

\* ---------------------------------------------------------------------- C5
ClampedRes == IF args.N < 3 THEN 3 ELSE args.N

AllBelow(idx, n) == \A k \in DOMAIN idx : idx[k] >= 0 /\ idx[k] < n


\* C5: every value in the index buffer is below the vertex count N*N, N the
\* resolution after clamping.
C5_IndicesInBounds ==
    Returned =>
        /\ locals.V = ClampedRes * ClampedRes
        /\ gl.buffers[mesh.vbo].bytes = FloatBytes * 3 * locals.V
        /\ AllBelow(UploadedIdx, locals.V)

Holds(idx, x) == \E k \in DOMAIN idx : idx[k] = x

C5_Witness ==
    /\ Returned
    /\ args.N = IndexCeiling
    /\ Holds(UploadedIdx, locals.V - 1)

\* ---------------------------------------------------------------------- C6
FlatOf(r, S) ==
    Cardinality(S) = 1 =>
        /\ r.range = 1
        /\ \A v \in Vertices(r) :
            /\ Normalized(VertexZ(r, v), r.zmin, r.range) = F0
            /\ VertexRGB(r, v) = Blue

FlatIsBlue(r) == FlatOf(r, SampledZ(r))

\* C6 (as claimed): when all sampled z are equal the range is replaced by 1,
\* every vertex gets t = 0 and is coloured (0,0,1).
C6_FlatIsBlue == Returned => FlatIsBlue(Uploaded)

\* ---------------------------------------------------------------------- C7
SameVectors(r, s) == r.pos = s.pos /\ r.col = s.col /\ r.idx = s.idx

ClampedToThree(r) ==
    /\ SameVectors(r, BuildVectors(3, args.H))
    /\ Size(r.pos) = 3 * 9
    /\ Size(r.col) = 3 * 9
    /\ Size(r.idx) = 24

\* C7: a resolution below 3 reports no error and gives the mesh of N = 3,
\* 9 vertices and 24 indices; a resolution of 3 or more is used as given.
C7_ClampToThree ==
    /\ Returned =>
        IF args.N < 3
        THEN /\ ClampedToThree(Uploaded)
             /\ locals.V = 9
             /\ mesh.indexCount = 24
        ELSE /\ locals.N = args.N
             /\ locals.V = args.N * args.N
    /\ out = Running

C7_Witness ==
    /\ Returned
    /\ args.N < 0
    /\ locals.V = 9
    /\ mesh.indexCount = 24
    /\ out = Running

\* ---------------------------------------------------------------------- C8
TruePositions(j, i, N) ==
    <<j * N + i, (j + 1) * N + i, j * N + i + 1,
      j * N + i + 1, (j + 1) * N + i, (j + 1) * N + i + 1>>

StoredAt(idx, j, i, N, k) == idx[6 * (j * (N - 1) + i) + k]

AllCellsTrue(idx, N) ==
    \A j \in 0..(N - 2), i \in 0..(N - 2), k \in 1..6 :
        StoredAt(idx, j, i, N, k) = TruePositions(j, i, N)[k]

AllCellsTrueModulo(idx, N) ==
    \A j \in 0..(N - 2), i \in 0..(N - 2), k \in 1..6 :
        StoredAt(idx, j, i, N, k) = TruePositions(j, i, N)[k] % 65536

\* C8 (as claimed): for N >= 3 the six indices of every cell (i,j) are
\* a c b, b c d with a, b, c, d the true row-major positions, untruncated.
C8_TruePositionsStored ==
    (Returned /\ args.N >= 3) => AllCellsTrue(UploadedIdx, args.N)

\* C8 (amended): for 3 <= N <= 256, where N*N <= 65536, the six indices of
\* every cell are a c b, b c d with the true positions; for a larger N the
\* values stored are those positions modulo 65536.
C8_TruePositionsUpToCeiling ==
    (Returned /\ args.N >= 3) =>
        IF args.N * args.N <= 65536
        THEN AllCellsTrue(UploadedIdx, args.N)
        ELSE AllCellsTrueModulo(UploadedIdx, args.N)

C8_Witness ==
    /\ Returned
    /\ args.N = 256
    /\ StoredAt(UploadedIdx, 254, 254, 256, 6) = 65535

\* ---------------------------------------------------------------------- C9
SegmentOf(t) ==
    IF FLess(t, Quarter) THEN 1
    ELSE IF FLess(t, Half) THEN 2
    ELSE IF FLess(t, ThreeQuarters) THEN 3
    ELSE 4

\* how far t is into its segment, 0 to 1
Into(t) == FMul(FSub(t, <<SegmentOf(t) - 1, 4>>), <<4, 1>>)

\* channel-wise linear interpolation from colour c0 to colour c1
Lerp(c0, c1, k) == [ch \in 1..3 |-> FAdd(c0[ch], FMul(FSub(c1[ch], c0[ch]), k))]

ClaimedStops == <<Blue, Cyan, Green, Red, Yellow>>
CodeStops == <<Blue, Cyan, Green, Yellow, Red>>

Interpolates(stops, t, colour) ==
    \A ch \in 1..3 :
        colour[ch] = Lerp(stops[SegmentOf(t)], stops[SegmentOf(t) + 1], Into(t))[ch]

OneChannelPerSegment(stops) ==
    \A s \in 1..4 : Cardinality({ch \in 1..3 : stops[s][ch] # stops[s + 1][ch]}) = 1

QuitSeen == obs.quitAt.seen

\* C10: every completed iteration of the frame loop has issued one draw call,
\* one swap and one angle increment; the iteration that polls the quit event
\* is completed and is the last, and the process then destroys the context
\* and the window and exits with status 0.
C10_QuitEndsLoopAfterIteration ==
    /\ pc = "loop" =>
        gl.draws = obs.iters /\ sdl.swaps = obs.iters /\ loop.ang = obs.iters
    /\ pc \in {"poll", "render"} =>
        gl.draws = obs.iters - 1 /\ sdl.swaps = obs.iters - 1 /\ loop.ang = obs.iters - 1
    /\ QuitSeen => gl.draws <= obs.quitAt.draws + 1
    /\ pc = "shutdown" => QuitSeen
    /\ (pc \in {"shutdown", "exited"} /\ QuitSeen) =>
        /\ gl.draws = obs.quitAt.draws + 1
        /\ sdl.swaps = obs.quitAt.swaps + 1
        /\ loop.ang = obs.quitAt.ang + 1
    /\ (pc = "exited" /\ QuitSeen) =>
        sdl.ctx = "destroyed" /\ sdl.win = "destroyed" /\ out.exit = 0

C10_Witness ==
    /\ pc = "exited"
    /\ QuitSeen
    /\ obs.quitAt.draws = 1
    /\ gl.draws = 2
    /\ out.exit = 0
====
